---- MODULE Spec2Model ----
(***************************************************************************)
(* A state-machine model of src/model_learn/learn_tendencies.py: the       *)
(* __main__ script (load, trim, tabularize, split by longitude, train in   *)
(* periods, score) and the input function get_input (batch, repeat,        *)
(* shuffle, one-shot iterator).                                            *)
(*                                                                         *)
(* External library calls are modelled by their contract at the call site: *)
(*   range(a, b, s)             PyRange                                     *)
(*   Dataset.drop / isel        Drop / isel (positional selection on lon)   *)
(*   from_tensor_slices         one element per row, the components must    *)
(*                              have the same number of rows                *)
(*   batch / repeat / shuffle   Batch / Repeat / the shuffle buffer         *)
(* Every library call of the script may also raise: action Raise.          *)
(***************************************************************************)
EXTENDS Integers, Sequences, FiniteSets, TLC

\* ------------------------------------------------------------- bounds
\* Largest longitude cardinality explored besides the documented one.
MaxLon == 9
\* Rows per longitude (the product of the time, lev and lat cardinalities).
MaxDepth == 2
\* Rows of a table handed to get_input, batch sizes and finite epoch counts.
MaxRows == 3
MaxBatch == 2
MaxEpochs == 2
\* Batches drawn from an iterator that repeats indefinitely.
MaxPulls == 4
\* ds.shuffle(buffer_size=10000): the buffer, scaled down to the tables above.
buffer_size == 2

\* ---------------------------------------------------- program constants
feature_vars == {"PS", "T", "U", "V"}
feature_coord_vars == {"time", "lev", "lat", "lon"}
target_vars == {"PTTEND", "PUTEND", "PVTEND"}
target_coord_vars == {"time", "lev", "lat", "lon"}
steps == 500
periods == 20
\* steps / periods: 500 / 20 is exactly 25 (25.0 in Python 3).
steps_per_period == steps \div periods
\* "it has 180 points and divides evenly by four"
DocumentedLon == 180

\* num_epochs=None: repeat indefinitely (tf.data's count of -1).
None == -1
\* batch_size=1, the default the two scoring input functions use, and
\* batch_size=10 of input_training
DefaultBatchSize == 1
TrainingBatchSize == 10

\* Variables a NetCDF file may hold besides the ones the script names.
ExtraVars == {"Q", "CLOUD"}

\* ------------------------------------------------------------ helpers
\* list(range(start, stop, step)) for step > 0.
PyRange(start, stop, step) ==
    LET n == IF stop > start THEN (stop - start + step - 1) \div step ELSE 0
    IN  [i \in 1..n |-> start + (i - 1) * step]

Range(s) == {s[i] : i \in DOMAIN s}

\* A gridded dataset / its table: the variables it holds, the longitude
\* coordinate (one value per longitude index) and the number of rows per
\* longitude.
NoData == [vars |-> {}, lon |-> <<>>, depth |-> 0]

LonCoords(n, off) == [i \in 1..n |-> 2 * (i - 1) + off]

Dataset(vs, n, off, d) == [vars |-> vs, lon |-> LonCoords(n, off), depth |-> d]

\* ds.drop(var)
Drop(ds, var) == [ds EXCEPT !.vars = @ \ {var}]

\* for var in ds.variables: if (var not in value_vars) and (var not in
\* coord_vars): ds = ds.drop(var)
RECURSIVE TrimLoop(_, _, _, _)
\* (variant: the test written with 'or', which drops every variable)
TrimLoopOr(ds, todo, value_vars, coord_vars) ==
    [ds EXCEPT !.vars = {v \in @ : v \in value_vars /\ v \in coord_vars}]
TrimLoop(ds, todo, value_vars, coord_vars) ==
    IF todo = {} THEN ds
    ELSE LET var == CHOOSE v \in todo : TRUE
         IN  TrimLoop(IF (var \notin value_vars) /\ (var \notin coord_vars)
                        THEN Drop(ds, var) ELSE ds,
                      todo \ {var}, value_vars, coord_vars)

\* ds.dims['lon']
DimsLon(ds) == Len(ds.lon)

\* ds.isel(lon=idx): positional selection; an index past the end raises.
IselRaises(ds, idx) == \E k \in DOMAIN idx : idx[k] >= Len(ds.lon)
isel(ds, idx) == [ds EXCEPT !.lon = [k \in 1..Len(idx) |-> ds.lon[idx[k] + 1]]]

\* Number of rows of a table.
RowCount(ds) == ds.depth * Len(ds.lon)

\* The three index lists of the split.
\* (variant: training takes every fourth longitude)
LonRangeTrainingStride4(L) == PyRange(0, L, 4)
LonRangeTraining(L) == PyRange(0, L, 2)
\* (variant: validation starts at the first longitude)
LonRangeValidationFromZero(L) == PyRange(0, L, 4)
LonRangeValidation(L) == PyRange(1, L, 4)
LonRangeTesting(L) == PyRange(3, L, 4)

\* ------------------------------------------------- get_input's pipeline
Min(a, b) == IF a < b THEN a ELSE b
Ceil(n, b) == (n + b - 1) \div b

RECURSIVE Flatten(_)
Flatten(ss) == IF ss = <<>> THEN <<>> ELSE Head(ss) \o Flatten(Tail(ss))

\* Table rows: row i of the feature table and row i of the target table.
FeatureRows(n) == [i \in 1..n |-> <<"x", i>>]
TargetRows(n) == [i \in 1..n |-> <<"y", i>>]

\* Dataset.from_tensor_slices((features_dict, targets_dict)): element i is
\* (feature row i, target row i); the two must have as many rows.
SlicesRaise(f, t) == Len(f) # Len(t)
FromTensorSlices(f, t) == [i \in 1..Len(f) |-> <<f[i], t[i]>>]

\* ds.batch(batch_size): consecutive groups of batch_size elements, the last
\* one shorter when batch_size does not divide the count.
\* (variant: batch(batch_size, drop_remainder=True))
BatchDropRemainder(elems, b) ==
    [j \in 1..(Len(elems) \div b) |-> SubSeq(elems, (j - 1) * b + 1, j * b)]
Batch(elems, b) ==
    [j \in 1..Ceil(Len(elems), b) |->
        SubSeq(elems, (j - 1) * b + 1, Min(j * b, Len(elems)))]

\* ds.repeat(count): the elements count times over; count = None repeats
\* without end, of which no run here draws more than Horizon passes.
Horizon == MaxPulls + buffer_size
RepeatSeq(s, n) == [i \in 1..(n * Len(s)) |-> s[((i - 1) % Len(s)) + 1]]
Repeat(s, count) == RepeatSeq(s, IF count = None THEN Horizon ELSE count)

\* Dataset.from_tensor_slices(...).batch(batch_size).repeat(num_epochs)
\* (variant: repeat before batch, so that batches span epochs)
RepeatThenBatch(f, t, b, count) == Batch(Repeat(FromTensorSlices(f, t), count), b)
BatchThenRepeat(f, t, b, count) == Repeat(Batch(FromTensorSlices(f, t), b), count)

\* The arguments the three input lambdas bind.
\* (variant: input_training bound to a single epoch)
input_training_one_epoch ==
    [batch_size |-> TrainingBatchSize, shuffle |-> TRUE, num_epochs |-> 1]
input_training ==
    [batch_size |-> TrainingBatchSize, shuffle |-> TRUE, num_epochs |-> None]
predict_input_training ==
    [batch_size |-> DefaultBatchSize, shuffle |-> FALSE, num_epochs |-> 1]
predict_input_validation ==
    [batch_size |-> DefaultBatchSize, shuffle |-> FALSE, num_epochs |-> 1]

\* Whether input function fn, over a table of n rows, has a batch left
\* after `drawn` batches.
HasBatch(fn, n, drawn) ==
    /\ n > 0
    /\ fn.num_epochs # None => drawn < fn.num_epochs * Ceil(n, fn.batch_size)
\* The rows a finite input function yields over a table of n rows.
RowsYielded(fn, n) == fn.num_epochs * n

\* ---------------------------------------------------------- variables
VARIABLES
    pc,                 \* the statement the script is at
    file_h0, file_h1,   \* the two NetCDF files named on the command line
    data_h0, data_h1,
    features, targets,
    lon_range_training, lon_range_validation, lon_range_testing,
    features_training, features_validation, features_testing,
    targets_training, targets_validation, targets_testing,
    period,             \* the loop variable of the training loop
    train_steps,        \* steps taken by the train call in progress
    global_step,        \* steps taken by the estimator so far
    training_predictions, validation_predictions,   \* their lengths
    training_rmse, validation_rmse,
    exc_logged          \* calls of _logger.exception

mainvars == <<pc, file_h0, file_h1, data_h0, data_h1, features, targets,
              lon_range_training, lon_range_validation, lon_range_testing,
              features_training, features_validation, features_testing,
              targets_training, targets_validation, targets_testing,
              period, train_steps, global_step,
              training_predictions, validation_predictions,
              training_rmse, validation_rmse, exc_logged>>

\* What the script itself has computed (everything but pc and the log).
progvars == <<file_h0, file_h1, data_h0, data_h1, features, targets,
              lon_range_training, lon_range_validation, lon_range_testing,
              features_training, features_validation, features_testing,
              targets_training, targets_validation, targets_testing,
              period, train_steps, global_step,
              training_predictions, validation_predictions,
              training_rmse, validation_rmse>>

\* get_input and the iterator it returns
VARIABLES
    it_pc,              \* where the input function / its iterator is
    arg_features, arg_targets,      \* the tables passed in, row by row
    batch_size, shuffle, num_epochs,
    ds,                 \* the elements of ds.batch(batch_size).repeat(num_epochs)
    upstream,           \* how many of them the next stage has drawn
    buffer,             \* the shuffle buffer: positions of ds it holds
    emitted             \* the batches get_next has returned, in order

itervars == <<it_pc, arg_features, arg_targets, batch_size, shuffle, num_epochs,
              ds, upstream, buffer, emitted>>

vars == <<mainvars, itervars>>

\* ------------------------------------------------------------- inputs
AllFlowVars == feature_vars \cup feature_coord_vars \cup ExtraVars
AllTendencyVars == target_vars \cup target_coord_vars \cup ExtraVars

LonCards == (0..MaxLon) \cup {DocumentedLon}

\* The pairs of files explored: files that differ in the variables they
\* hold, in the longitude cardinality, and in the grid of the second file.
FilePairs ==
    {<<Dataset(fv \cup feature_coord_vars, 4, 0, 1), Dataset(AllTendencyVars, 4, 0, 1)>> :
        fv \in SUBSET (feature_vars \cup ExtraVars)}
    \cup
    {<<Dataset(AllFlowVars, 4, 0, 1), Dataset(tv \cup target_coord_vars, 4, 0, 1)>> :
        tv \in SUBSET (target_vars \cup ExtraVars)}
    \cup
    {<<Dataset(AllFlowVars, L, 0, 1), Dataset(AllTendencyVars, L, 0, 1)>> :
        L \in LonCards}
    \cup
    {<<Dataset(AllFlowVars, g[1], 0, g[2]), Dataset(AllTendencyVars, g[3], g[4], g[5])>> :
        g \in {h \in (0..MaxLon) \X (1..MaxDepth) \X (0..MaxLon + 1) \X {0, 1} \X (1..MaxDepth) :
                  h[3] \in {h[1] - 1, h[1], h[1] + 1}}}

\* No input function is being evaluated.
IterIdle ==
    /\ it_pc = "idle"
    /\ arg_features = <<>> /\ arg_targets = <<>>
    /\ batch_size = DefaultBatchSize /\ shuffle = TRUE /\ num_epochs = None
    /\ ds = <<>> /\ upstream = 0 /\ buffer = {} /\ emitted = <<>>

Init ==
    /\ pc = "start"
    /\ \E p \in FilePairs : file_h0 = p[1] /\ file_h1 = p[2]
    /\ data_h0 = NoData /\ data_h1 = NoData
    /\ features = NoData /\ targets = NoData
    /\ lon_range_training = <<>> /\ lon_range_validation = <<>>
    /\ lon_range_testing = <<>>
    /\ features_training = NoData /\ features_validation = NoData
    /\ features_testing = NoData
    /\ targets_training = NoData /\ targets_validation = NoData
    /\ targets_testing = NoData
    /\ period = 0 /\ train_steps = 0 /\ global_step = 0
    /\ training_predictions = 0 /\ validation_predictions = 0
    /\ training_rmse = <<>> /\ validation_rmse = <<>>
    /\ exc_logged = 0
    /\ IterIdle

\* ------------------------------------------------------------ actions
\* The statements inside the try block, in program order.
Stages == <<"start", "parse", "load", "trim_features", "feature_columns",
            "trim_targets", "split_ranges", "split_features", "split_targets",
            "build_model", "loop", "train", "predict_training",
            "predict_validation", "rmse", "append", "finish", "done">>

StageRank(s) == CHOOSE i \in DOMAIN Stages : Stages[i] = s

\* Statements that call into a library and so may raise an Exception.
RaisingStages == {"load", "trim_features", "feature_columns", "trim_targets",
                  "split_ranges", "split_features", "split_targets",
                  "build_model", "train", "predict_training",
                  "predict_validation", "rmse", "finish"}

\* Where the statement at pc raises whatever the library does:
\*   features[var] of a missing column (KeyError),
\*   isel with an index past the end (IndexError),
\*   from_tensor_slices of tables of different row counts (ValueError), when
\*     the input function is first called, before any step,
\*   mean_squared_error of empty arrays or of arrays of different lengths
\*     (ValueError).
MustRaise ==
    CASE pc = "feature_columns" -> ~(feature_vars \subseteq features.vars)
      [] pc = "split_features" ->
            IselRaises(features, lon_range_training \o lon_range_validation
                                 \o lon_range_testing)
      [] pc = "split_targets" ->
            IselRaises(targets, lon_range_training \o lon_range_validation
                                \o lon_range_testing)
      [] pc = "train" ->
            train_steps = 0 /\ RowCount(features_training) # RowCount(targets_training)
      [] pc = "predict_training" ->
            RowCount(features_training) # RowCount(targets_training)
      [] pc = "predict_validation" ->
            RowCount(features_validation) # RowCount(targets_validation)
      [] pc = "rmse" ->
            \/ training_predictions = 0
            \/ validation_predictions = 0
            \/ training_predictions # RowCount(targets_training)
            \/ validation_predictions # RowCount(targets_validation)
      [] OTHER -> FALSE

\* start_datetime = datetime.now(); _logger.info(...)
Start ==
    /\ pc = "start"
    /\ pc' = "parse"
    /\ UNCHANGED <<progvars, exc_logged, itervars>>

\* args = parser.parse_args()
ParseArgs ==
    /\ pc = "parse"
    /\ pc' = "load"
    /\ UNCHANGED <<progvars, exc_logged, itervars>>

\* parse_args on a bad command line: SystemExit, which is no Exception and
\* passes the handler.
ParseArgsExit ==
    /\ pc = "parse"
    /\ pc' = "exited"
    /\ UNCHANGED <<progvars, exc_logged, itervars>>

\* data_h0 = xr.open_dataset(...); data_h1 = xr.open_dataset(...)
LoadDatasets ==
    /\ pc = "load"
    /\ data_h0' = file_h0
    /\ data_h1' = file_h1
    /\ pc' = "trim_features"
    /\ UNCHANGED <<file_h0, file_h1, features, targets,
                   lon_range_training, lon_range_validation, lon_range_testing,
                   features_training, features_validation, features_testing,
                   targets_training, targets_validation, targets_testing,
                   period, train_steps, global_step,
                   training_predictions, validation_predictions,
                   training_rmse, validation_rmse, exc_logged, itervars>>

\* The feature trimming loop, then features = data_h0.to_dataframe()
TrimFeatures ==
    /\ pc = "trim_features"
    /\ data_h0' = TrimLoop(data_h0, data_h0.vars, feature_vars, feature_coord_vars)
    /\ features' = data_h0'
    /\ pc' = "feature_columns"
    /\ UNCHANGED <<file_h0, file_h1, data_h1, targets,
                   lon_range_training, lon_range_validation, lon_range_testing,
                   features_training, features_validation, features_testing,
                   targets_training, targets_validation, targets_testing,
                   period, train_steps, global_step,
                   training_predictions, validation_predictions,
                   training_rmse, validation_rmse, exc_logged, itervars>>

\* feature_columns.append(numeric_column(var, shape=features[var].shape))
FeatureColumns ==
    /\ pc = "feature_columns"
    /\ ~MustRaise
    /\ pc' = "trim_targets"
    /\ UNCHANGED <<progvars, exc_logged, itervars>>

\* The target trimming loop, then targets = data_h1.to_dataframe()
TrimTargets ==
    /\ pc = "trim_targets"
    /\ data_h1' = TrimLoop(data_h1, data_h1.vars, target_vars, target_coord_vars)
    /\ targets' = data_h1'
    /\ pc' = "split_ranges"
    /\ UNCHANGED <<file_h0, file_h1, data_h0, features,
                   lon_range_training, lon_range_validation, lon_range_testing,
                   features_training, features_validation, features_testing,
                   targets_training, targets_validation, targets_testing,
                   period, train_steps, global_step,
                   training_predictions, validation_predictions,
                   training_rmse, validation_rmse, exc_logged, itervars>>

\* lon_range_training = list(range(0, features.dims['lon'], 2)) and the two
\* lines after it
SplitRanges ==
    /\ pc = "split_ranges"
    /\ lon_range_training' = LonRangeTraining(DimsLon(features))
    /\ lon_range_validation' = LonRangeValidation(DimsLon(features))
    /\ lon_range_testing' = LonRangeTesting(DimsLon(features))
    /\ pc' = "split_features"
    /\ UNCHANGED <<file_h0, file_h1, data_h0, data_h1, features, targets,
                   features_training, features_validation, features_testing,
                   targets_training, targets_validation, targets_testing,
                   period, train_steps, global_step,
                   training_predictions, validation_predictions,
                   training_rmse, validation_rmse, exc_logged, itervars>>

\* features_training = features.isel(lon=lon_range_training) and the two
\* lines after it
SplitFeatures ==
    /\ pc = "split_features"
    /\ ~MustRaise
    /\ features_training' = isel(features, lon_range_training)
    /\ features_validation' = isel(features, lon_range_validation)
    /\ features_testing' = isel(features, lon_range_testing)
    /\ pc' = "split_targets"
    /\ UNCHANGED <<file_h0, file_h1, data_h0, data_h1, features, targets,
                   lon_range_training, lon_range_validation, lon_range_testing,
                   targets_training, targets_validation, targets_testing,
                   period, train_steps, global_step,
                   training_predictions, validation_predictions,
                   training_rmse, validation_rmse, exc_logged, itervars>>

\* targets_training = targets.isel(lon=lon_range_training) and the two lines
\* after it
\* (variant: the validation and testing lists exchanged for the targets)
SplitTargetsSwapped ==
    /\ pc = "split_targets"
    /\ ~MustRaise
    /\ targets_training' = isel(targets, lon_range_training)
    /\ targets_validation' = isel(targets, lon_range_testing)
    /\ targets_testing' = isel(targets, lon_range_validation)
    /\ pc' = "build_model"
    /\ UNCHANGED <<file_h0, file_h1, data_h0, data_h1, features, targets,
                   lon_range_training, lon_range_validation, lon_range_testing,
                   features_training, features_validation, features_testing,
                   period, train_steps, global_step,
                   training_predictions, validation_predictions,
                   training_rmse, validation_rmse, exc_logged, itervars>>
SplitTargets ==
    /\ pc = "split_targets"
    /\ ~MustRaise
    /\ targets_training' = isel(targets, lon_range_training)
    /\ targets_validation' = isel(targets, lon_range_validation)
    /\ targets_testing' = isel(targets, lon_range_testing)
    /\ pc' = "build_model"
    /\ UNCHANGED <<file_h0, file_h1, data_h0, data_h1, features, targets,
                   lon_range_training, lon_range_validation, lon_range_testing,
                   features_training, features_validation, features_testing,
                   period, train_steps, global_step,
                   training_predictions, validation_predictions,
                   training_rmse, validation_rmse, exc_logged, itervars>>

\* The optimizer, the DNNRegressor, the three input lambdas, and
\* training_rmse = []; validation_rmse = []
BuildModel ==
    /\ pc = "build_model"
    /\ training_rmse' = <<>>
    /\ validation_rmse' = <<>>
    /\ period' = 0
    /\ pc' = "loop"
    /\ UNCHANGED <<file_h0, file_h1, data_h0, data_h1, features, targets,
                   lon_range_training, lon_range_validation, lon_range_testing,
                   features_training, features_validation, features_testing,
                   targets_training, targets_validation, targets_testing,
                   train_steps, global_step,
                   training_predictions, validation_predictions, exc_logged, itervars>>

\* for period in range(0, periods): the loop is entered with the next period
LoopEnter ==
    /\ pc = "loop"
    /\ period < periods
    /\ train_steps' = 0
    /\ pc' = "train"
    /\ UNCHANGED <<file_h0, file_h1, data_h0, data_h1, features, targets,
                   lon_range_training, lon_range_validation, lon_range_testing,
                   features_training, features_validation, features_testing,
                   targets_training, targets_validation, targets_testing,
                   period, global_step,
                   training_predictions, validation_predictions,
                   training_rmse, validation_rmse, exc_logged, itervars>>

\* ... or left when range(0, periods) is exhausted
\* (variant: the loop left one period early)
LoopExitEarly ==
    /\ pc = "loop"
    /\ period >= periods - 1
    /\ pc' = "finish"
    /\ UNCHANGED <<progvars, exc_logged, itervars>>
LoopExit ==
    /\ pc = "loop"
    /\ period >= periods
    /\ pc' = "finish"
    /\ UNCHANGED <<progvars, exc_logged, itervars>>

\* dnn_regressor.train(input_fn=input_training, steps=steps_per_period): one
\* step consumes one batch of the unbounded training sequence
TrainStep ==
    /\ pc = "train"
    /\ ~MustRaise
    /\ train_steps < steps_per_period
    /\ HasBatch(input_training, RowCount(features_training), train_steps)
    /\ train_steps' = train_steps + 1
    /\ global_step' = global_step + 1
    /\ UNCHANGED <<pc, file_h0, file_h1, data_h0, data_h1, features, targets,
                   lon_range_training, lon_range_validation, lon_range_testing,
                   features_training, features_validation, features_testing,
                   targets_training, targets_validation, targets_testing,
                   period, training_predictions, validation_predictions,
                   training_rmse, validation_rmse, exc_logged, itervars>>

\* train returns after steps_per_period steps, or before that when the
\* input function has no batch left (for input_training: when the training
\* table is empty)
TrainReturn ==
    /\ pc = "train"
    /\ ~MustRaise
    /\ HasBatch(input_training, RowCount(features_training), train_steps)
          => train_steps = steps_per_period
    /\ pc' = "predict_training"
    /\ UNCHANGED <<progvars, exc_logged, itervars>>

\* training_predictions = np.array([... dnn_regressor.predict(
\*     input_fn=predict_input_training)]): one prediction per row
PredictTraining ==
    /\ pc = "predict_training"
    /\ ~MustRaise
    /\ training_predictions' = RowsYielded(predict_input_training, RowCount(features_training))
    /\ pc' = "predict_validation"
    /\ UNCHANGED <<file_h0, file_h1, data_h0, data_h1, features, targets,
                   lon_range_training, lon_range_validation, lon_range_testing,
                   features_training, features_validation, features_testing,
                   targets_training, targets_validation, targets_testing,
                   period, train_steps, global_step, validation_predictions,
                   training_rmse, validation_rmse, exc_logged, itervars>>

PredictValidation ==
    /\ pc = "predict_validation"
    /\ ~MustRaise
    /\ validation_predictions' = RowsYielded(predict_input_validation, RowCount(features_validation))
    /\ pc' = "rmse"
    /\ UNCHANGED <<file_h0, file_h1, data_h0, data_h1, features, targets,
                   lon_range_training, lon_range_validation, lon_range_testing,
                   features_training, features_validation, features_testing,
                   targets_training, targets_validation, targets_testing,
                   period, train_steps, global_step, training_predictions,
                   training_rmse, validation_rmse, exc_logged, itervars>>

\* The two math.sqrt(metrics.mean_squared_error(...)) lines
ComputeRmse ==
    /\ pc = "rmse"
    /\ ~MustRaise
    /\ pc' = "append"
    /\ UNCHANGED <<progvars, exc_logged, itervars>>

\* print(...); training_rmse.append(...); validation_rmse.append(...); the
\* loop variable then takes its next value
AppendRmse ==
    /\ pc = "append"
    /\ training_rmse' = Append(training_rmse, <<"rmse", period>>)
    /\ validation_rmse' = Append(validation_rmse, <<"rmse", period>>)
    /\ period' = period + 1
    /\ pc' = "loop"
    /\ UNCHANGED <<file_h0, file_h1, data_h0, data_h1, features, targets,
                   lon_range_training, lon_range_validation, lon_range_testing,
                   features_training, features_validation, features_testing,
                   targets_training, targets_validation, targets_testing,
                   train_steps, global_step,
                   training_predictions, validation_predictions, exc_logged, itervars>>

\* The prints and the elapsed-time log after the loop
Finish ==
    /\ pc = "finish"
    /\ pc' = "done"
    /\ UNCHANGED <<progvars, exc_logged, itervars>>

\* Any statement of RaisingStages raises: control passes to the handler.
Raise ==
    /\ pc \in RaisingStages
    /\ pc' = "except"
    /\ UNCHANGED <<progvars, exc_logged, itervars>>

\* except Exception as ex: _logger.exception('Failed to complete', ...)
LogException ==
    /\ pc = "except"
    /\ exc_logged' = exc_logged + 1
    /\ pc' = "reraise"
    /\ UNCHANGED <<progvars, itervars>>

\* raise
\* (variant: the handler does not re-raise)
ReraiseSwallowed ==
    /\ pc = "reraise"
    /\ pc' = "done"
    /\ UNCHANGED <<progvars, exc_logged, itervars>>
Reraise ==
    /\ pc = "reraise"
    /\ pc' = "failed"
    /\ UNCHANGED <<progvars, exc_logged, itervars>>

Next ==
    \/ Start \/ ParseArgs \/ ParseArgsExit \/ LoadDatasets
    \/ TrimFeatures \/ FeatureColumns \/ TrimTargets
    \/ SplitRanges \/ SplitFeatures \/ SplitTargets \/ BuildModel
    \/ LoopEnter \/ LoopExit \/ TrainStep \/ TrainReturn
    \/ PredictTraining \/ PredictValidation \/ ComputeRmse \/ AppendRmse
    \/ Finish \/ Raise \/ LogException \/ Reraise

Spec == Init /\ [][Next]_vars

\* ------------------------------------------------ get_input on its own
\* The calls of get_input explored: tables of up to MaxRows rows (of equal
\* or different row counts), with and without shuffling, repeated once,
\* several times or without end; 10 rows in batches of 3, one pass in order
\* (a short last batch); and the batch size of input_training.
Calls ==
    {[n |-> c[1], m |-> c[2], b |-> c[3], sh |-> c[4], ep |-> c[5]] :
        c \in (0..MaxRows) \X (0..MaxRows) \X (1..MaxBatch) \X BOOLEAN
               \X ({None} \cup (1..MaxEpochs))}
    \cup {[n |-> 10, m |-> 10, b |-> 3, sh |-> FALSE, ep |-> 1]}
    \cup {[n |-> r, m |-> r, b |-> fn.batch_size, sh |-> fn.shuffle,
            ep |-> fn.num_epochs] :
            r \in 0..MaxRows,
            fn \in {input_training, predict_input_training, predict_input_validation}}

InitIter ==
    /\ pc = "input_fn"
    /\ file_h0 = NoData /\ file_h1 = NoData
    /\ data_h0 = NoData /\ data_h1 = NoData
    /\ features = NoData /\ targets = NoData
    /\ lon_range_training = <<>> /\ lon_range_validation = <<>>
    /\ lon_range_testing = <<>>
    /\ features_training = NoData /\ features_validation = NoData
    /\ features_testing = NoData
    /\ targets_training = NoData /\ targets_validation = NoData
    /\ targets_testing = NoData
    /\ period = 0 /\ train_steps = 0 /\ global_step = 0
    /\ training_predictions = 0 /\ validation_predictions = 0
    /\ training_rmse = <<>> /\ validation_rmse = <<>>
    /\ exc_logged = 0
    /\ it_pc = "call"
    /\ \E c \in Calls :
          /\ arg_features = FeatureRows(c.n)
          /\ arg_targets = TargetRows(c.m)
          /\ batch_size = c.b
          /\ shuffle = c.sh
          /\ num_epochs = c.ep
    /\ ds = <<>> /\ upstream = 0 /\ buffer = {} /\ emitted = <<>>

\* get_input up to make_one_shot_iterator(): the pipeline is built
GetInput ==
    /\ it_pc = "call"
    /\ ~SlicesRaise(arg_features, arg_targets)
    /\ ds' = BatchThenRepeat(arg_features, arg_targets, batch_size, num_epochs)
    /\ upstream' = 0
    /\ buffer' = {}
    /\ it_pc' = "iterating"
    /\ UNCHANGED <<mainvars, arg_features, arg_targets, batch_size, shuffle,
                   num_epochs, emitted>>

\* ... or from_tensor_slices rejects tables of different row counts
GetInputRaises ==
    /\ it_pc = "call"
    /\ SlicesRaise(arg_features, arg_targets)
    /\ it_pc' = "error"
    /\ UNCHANGED <<mainvars, arg_features, arg_targets, batch_size, shuffle,
                   num_epochs, ds, upstream, buffer, emitted>>

\* An iterator that repeats without end is drawn from MaxPulls times.
MayPull == num_epochs # None \/ Len(emitted) < MaxPulls

\* get_next() without shuffling: the next element of the repeated batches
GetNextInOrder ==
    /\ it_pc = "iterating"
    /\ ~shuffle
    /\ MayPull
    /\ upstream < Len(ds)
    /\ emitted' = Append(emitted, ds[upstream + 1])
    /\ upstream' = upstream + 1
    /\ UNCHANGED <<mainvars, it_pc, arg_features, arg_targets, batch_size,
                   shuffle, num_epochs, ds, buffer>>

\* The buffer after shuffle has refilled it from its input.
Filled == buffer \cup ((upstream + 1)..Min(Len(ds), upstream + buffer_size - Cardinality(buffer)))

\* get_next() of ds.shuffle(buffer_size): the buffer is refilled from the
\* repeated batches, then one of its elements, chosen at random, is
\* returned and leaves the buffer
\* (variant: the chosen element stays in the buffer)
GetNextShuffledWithReplacement ==
    /\ it_pc = "iterating"
    /\ shuffle
    /\ MayPull
    /\ \E q \in Filled :
          /\ emitted' = Append(emitted, ds[q])
          /\ buffer' = Filled
    /\ upstream' = upstream + Cardinality(Filled \ buffer)
    /\ UNCHANGED <<mainvars, it_pc, arg_features, arg_targets, batch_size,
                   shuffle, num_epochs, ds>>
GetNextShuffled ==
    /\ it_pc = "iterating"
    /\ shuffle
    /\ MayPull
    /\ \E q \in Filled :
          /\ emitted' = Append(emitted, ds[q])
          /\ buffer' = Filled \ {q}
    /\ upstream' = upstream + Cardinality(Filled \ buffer)
    /\ UNCHANGED <<mainvars, it_pc, arg_features, arg_targets, batch_size,
                   shuffle, num_epochs, ds>>

\* get_next() past the last element: OutOfRangeError, the end of the input
OutOfRange ==
    /\ it_pc = "iterating"
    /\ upstream = Len(ds)
    /\ buffer = {}
    /\ it_pc' = "exhausted"
    /\ UNCHANGED <<mainvars, arg_features, arg_targets, batch_size, shuffle,
                   num_epochs, ds, upstream, buffer, emitted>>

NextIter ==
    \/ GetInput \/ GetInputRaises
    \/ GetNextInOrder \/ GetNextShuffled \/ OutOfRange

SpecIter == InitIter /\ [][NextIter]_vars

\* ===================================================== the properties
\* The script is past statement s (and in no handler).
Past(s) == pc \in {Stages[i] : i \in (StageRank(s) + 1)..Len(Stages)}

L == DimsLon(features)
TrainingSet == Range(lon_range_training)
ValidationSet == Range(lon_range_validation)
TestingSet == Range(lon_range_testing)
SplitUnion == TrainingSet \cup ValidationSet \cup TestingSet

\* C1 as stated: for every L not divisible by 4 the union of the three
\* index sets is a strict subset of [0, L) and no index i with i mod 4 = 2
\* is in any of the three sets.
C1_Mod4Remainder2Dropped ==
    (Past("split_ranges") /\ L % 4 # 0) =>
        /\ SplitUnion \subseteq 0..(L - 1)
        /\ SplitUnion # 0..(L - 1)
        /\ \A i \in 0..(L - 1) : i % 4 = 2 => i \notin SplitUnion

\* C1 as amended: for every L not divisible by 4 the union of the three
\* index sets is all of [0, L), and every index i with i mod 4 = 2 is in the
\* training set (it is even) and in neither of the other two.
C1_Mod4Remainder2Trained ==
    (Past("split_ranges") /\ L % 4 # 0) =>
        /\ SplitUnion = 0..(L - 1)
        /\ \A i \in 0..(L - 1) : i % 4 = 2 =>
              /\ i \in TrainingSet
              /\ i \notin ValidationSet
              /\ i \notin TestingSet

C1_Witness ==
    /\ pc = "split_features"
    /\ L = 6
    /\ 2 \in TrainingSet

\* C2: for every L divisible by 4, |training| = L/2, |validation| = L/4,
\* |testing| = L/4 and every index of {0,...,L-1} is in exactly one set.
C2_PartitionWhenDivisibleBy4 ==
    (Past("split_ranges") /\ L % 4 = 0) =>
        /\ Len(lon_range_training) = L \div 2
        /\ Len(lon_range_validation) = L \div 4
        /\ Len(lon_range_testing) = L \div 4
        /\ Cardinality(TrainingSet) = L \div 2
        /\ Cardinality(ValidationSet) = L \div 4
        /\ Cardinality(TestingSet) = L \div 4
        /\ \A i \in 0..(L - 1) :
              Cardinality({S \in {"tr", "va", "te"} :
                  \/ S = "tr" /\ i \in TrainingSet
                  \/ S = "va" /\ i \in ValidationSet
                  \/ S = "te" /\ i \in TestingSet}) = 1
        /\ SplitUnion = 0..(L - 1)

C2_Witness ==
    /\ pc = "split_features"
    /\ L = 180
    /\ Len(lon_range_training) = 90
    /\ Len(lon_range_validation) = 45
    /\ Len(lon_range_testing) = 45

\* The longitude coordinates table t keeps when its rows are selected by
\* the longitude indices idx.
SelectedLon(t, idx) == [k \in 1..Len(idx) |-> t.lon[idx[k] + 1]]

\* C3: for every L >= 0 the three index sets are pairwise disjoint and
\* within [0, L); and each split of the feature table and the same split of
\* the target table hold the rows of the same longitude indices.
C3_DisjointAndSameIndices ==
    /\ Past("split_ranges") =>
          /\ TrainingSet \cap ValidationSet = {}
          /\ TrainingSet \cap TestingSet = {}
          /\ ValidationSet \cap TestingSet = {}
          /\ SplitUnion \subseteq 0..(L - 1)
    /\ Past("split_targets") =>
          /\ features_training.lon = SelectedLon(features, lon_range_training)
          /\ targets_training.lon = SelectedLon(targets, lon_range_training)
          /\ features_validation.lon = SelectedLon(features, lon_range_validation)
          /\ targets_validation.lon = SelectedLon(targets, lon_range_validation)
          /\ features_testing.lon = SelectedLon(features, lon_range_testing)
          /\ targets_testing.lon = SelectedLon(targets, lon_range_testing)

C3_Witness ==
    /\ pc = "build_model"
    /\ L = 6
    /\ Len(features_validation.lon) = 2
    /\ Len(targets_testing.lon) = 1
    /\ targets.lon # features.lon

\* C7: after the trimming loop the dataset holds exactly the variables of
\* the file that are on the value allow-list or the coordinate allow-list
\* (for the flows file: PS, T, U, V; for the tendencies file: PTTEND,
\* PUTEND, PVTEND).
C7_SelectorKeepsExactlyAllowed ==
    /\ Past("trim_features") =>
          data_h0.vars = file_h0.vars \cap
              ({"PS", "T", "U", "V"} \cup {"time", "lev", "lat", "lon"})
    /\ Past("trim_targets") =>
          data_h1.vars = file_h1.vars \cap
              ({"PTTEND", "PUTEND", "PVTEND"} \cup {"time", "lev", "lat", "lon"})

C7_Witness ==
    /\ pc = "split_ranges"
    /\ {"Q", "CLOUD"} \subseteq file_h0.vars
    /\ data_h0.vars = {"PS", "T", "U", "V", "time", "lev", "lat", "lon"}
    /\ {"Q", "CLOUD"} \subseteq file_h1.vars
    /\ data_h1.vars = {"PTTEND", "PUTEND", "PVTEND", "time", "lev", "lat", "lon"}

\* C8: a statement that raises passes control to the handler with nothing
\* else changed; the handler logs once, re-raises, and the run has failed:
\* nothing runs after that. Outside the handler nothing is logged as an
\* exception, and the script only moves forward: a statement is left for a
\* later one, or for the next step of the train call or the next period.
HandlerStates == {"except", "reraise", "failed"}

C8_FailureLoggedOnceThenReraised ==
    [][/\ (pc \notin HandlerStates /\ pc' \in HandlerStates) =>
              /\ pc \in RaisingStages
              /\ pc' = "except"
              /\ exc_logged = 0
              /\ UNCHANGED <<progvars, exc_logged>>
       /\ pc = "except" =>
              /\ pc' = "reraise"
              /\ exc_logged' = 1
              /\ UNCHANGED progvars
       /\ pc = "reraise" =>
              /\ pc' = "failed"
              /\ UNCHANGED <<progvars, exc_logged>>
       /\ pc = "failed" => FALSE
       /\ (pc \notin HandlerStates /\ pc' \notin HandlerStates /\ pc' # "exited") =>
              /\ exc_logged' = 0
              /\ \/ StageRank(pc') > StageRank(pc)
                 \/ pc = "train" /\ pc' = "train" /\ global_step' = global_step + 1
                 \/ pc = "append" /\ pc' = "loop" /\ period' = period + 1
      ]_vars

C8_Witness ==
    /\ pc = "failed"
    /\ exc_logged = 1
    /\ period = 3
    /\ global_step = 90

Scorable == RowCount(features_training) > 0 /\ RowCount(features_validation) > 0

C10_TwentyPeriodsOf25Steps ==
    /\ pc = "loop" =>
          /\ period <= 20
          /\ Len(training_rmse) = period
          /\ Len(validation_rmse) = period
          /\ global_step = 25 * period
    /\ pc = "train" =>
          /\ period < 20
          /\ train_steps <= 25
          /\ global_step = 25 * period + train_steps
          /\ Len(training_rmse) = period
          /\ Len(validation_rmse) = period
          /\ train_steps = 25 => ~ENABLED TrainStep
    /\ (pc \in {"predict_training", "predict_validation", "rmse", "append"}
            /\ Scorable) =>
          /\ global_step = 25 * (period + 1)
          /\ Len(training_rmse) = period
          /\ Len(validation_rmse) = period
    /\ (pc = "predict_validation" /\ period = 0) =>
          /\ training_predictions = RowCount(features_training)
          /\ validation_predictions = 0
    /\ pc \in {"rmse", "append"} =>
          /\ training_predictions = RowCount(features_training)
          /\ validation_predictions = RowCount(features_validation)
    /\ pc \in {"finish", "done"} =>
          /\ period = 20
          /\ Len(training_rmse) = 20
          /\ Len(validation_rmse) = 20
          /\ global_step = 500

C10_Witness ==
    /\ pc = "done"
    /\ Len(training_rmse) = 20
    /\ Len(validation_rmse) = 20
    /\ global_step = 500

\* ------------------------------------------- properties of get_input
N == Len(arg_features)
Row(i) == <<arg_features[i], arg_targets[i]>>
AllRows == [i \in 1..N |-> Row(i)]
\* How often row i has been emitted.
Emissions(i) ==
    LET flat == Flatten(emitted)
    IN  Cardinality({p \in DOMAIN flat : flat[p] = Row(i)})
\* The batches of one pass over the table.
BatchesPerEpoch == Ceil(N, batch_size)
Started == it_pc \in {"iterating", "exhausted"}

\* C4 as stated: with shuffling, every row appears exactly once within each
\* completed epoch, that is within each consecutive run of ceil(N/B) emitted
\* batches.
C4_OncePerEpochWindow ==
    (Started /\ shuffle /\ N > 0) =>
        \A e \in 1..(Len(emitted) \div BatchesPerEpoch) :
            LET window == Flatten(SubSeq(emitted, (e - 1) * BatchesPerEpoch + 1,
                                         e * BatchesPerEpoch))
            IN  \A i \in 1..N :
                    Cardinality({p \in DOMAIN window : window[p] = Row(i)}) = 1

\* C4 as amended: with shuffling, what is shuffled is the batched and
\* repeated sequence: every emitted batch is one of the ceil(N/B) batches of
\* an unshuffled pass, and with a finite num_epochs = k no row is emitted
\* more than k times and every row has been emitted exactly k times once
\* the iterator is exhausted.
C4_ShuffledAcrossEpochs ==
    (Started /\ shuffle) =>
        /\ \A j \in DOMAIN emitted :
              \E b \in 1..BatchesPerEpoch :
                  emitted[j] = SubSeq(AllRows, (b - 1) * batch_size + 1,
                                      Min(b * batch_size, N))
        /\ num_epochs # None =>
              \A i \in 1..N :
                  /\ Emissions(i) <= num_epochs
                  /\ it_pc = "exhausted" => Emissions(i) = num_epochs

C4_Witness ==
    /\ it_pc = "exhausted"
    /\ shuffle
    /\ num_epochs = 2
    /\ N = 2
    /\ batch_size = 1
    /\ emitted[1] = emitted[2]

\* C5: without shuffling and with num_epochs = 1 the iterator yields
\* ceil(N/B) batches, each of B rows but for a shorter last one, and their
\* concatenation is the N (feature, target) rows in their order.
C5_SinglePassInOrder ==
    (Started /\ ~shuffle /\ num_epochs = 1) =>
        /\ \A j \in DOMAIN emitted :
              /\ Len(emitted[j]) <= batch_size
              /\ Len(emitted[j]) >= 1
              /\ j < BatchesPerEpoch => Len(emitted[j]) = batch_size
        /\ Flatten(emitted) = SubSeq(AllRows, 1, Len(Flatten(emitted)))
        /\ it_pc = "exhausted" =>
              /\ Len(emitted) = BatchesPerEpoch
              /\ Flatten(emitted) = AllRows

C5_Witness ==
    /\ it_pc = "exhausted"
    /\ ~shuffle
    /\ num_epochs = 1
    /\ N = 10
    /\ batch_size = 3
    /\ [j \in DOMAIN emitted |-> Len(emitted[j])] = <<3, 3, 3, 1>>

\* C6: with a finite num_epochs = k the iterator yields exactly
\* k * ceil(N/B) batches and then ends; no batch holds rows of two epochs
\* (its rows are consecutive rows of the table), and without shuffling every
\* run of ceil(N/B) batches is one whole pass.
C6_FiniteRepeatCount ==
    (Started /\ num_epochs # None) =>
        /\ Len(emitted) <= num_epochs * BatchesPerEpoch
        /\ it_pc = "exhausted" => Len(emitted) = num_epochs * BatchesPerEpoch
        /\ (it_pc = "iterating" /\ Len(emitted) = num_epochs * BatchesPerEpoch) =>
              /\ ~ENABLED GetNextInOrder
              /\ ~ENABLED GetNextShuffled
              /\ ENABLED OutOfRange
        /\ \A j \in DOMAIN emitted :
              \A r \in 1..(Len(emitted[j]) - 1) :
                  emitted[j][r + 1][1][2] = emitted[j][r][1][2] + 1
        /\ ~shuffle =>
              \A e \in 1..num_epochs :
                  e * BatchesPerEpoch <= Len(emitted) =>
                      Flatten(SubSeq(emitted, (e - 1) * BatchesPerEpoch + 1,
                                     e * BatchesPerEpoch)) = AllRows

C6_Witness ==
    /\ it_pc = "exhausted"
    /\ num_epochs = 2
    /\ N = 3
    /\ batch_size = 2
    /\ Len(emitted) = 4
    /\ Len(emitted[2]) = 1

====
